---------------------------- MODULE Spec2Model ----------------------------
(***************************************************************************)
(* A model of scripts/acoustic_engine.py: detect_spikes, _normalize and    *)
(* _merge_spikes.                                                          *)
(*                                                                         *)
(* Numbers.  The program computes in float64; the model computes in exact  *)
(* integers and rationals:                                                 *)
(*   - a time is a whole number of ticks, TicksPerSecond to the second,    *)
(*     chosen so that a frame time (index * HOP_LENGTH / SR) and a         *)
(*     millisecond are both whole;                                         *)
(*   - a normalized sequence and the heat sequence are a sequence of       *)
(*     numerators over one common positive denominator;                    *)
(*   - np.std is the one irrational step: it is computed in fixed point,   *)
(*     rounded down to 1/StdResolution of a pitch unit.                    *)
(* Frame and candidate indices are 0-based as in the program; the k-th     *)
(* element of a sequence s (0-based) is s[k + 1], written At(s, k).        *)
(***************************************************************************)
EXTENDS Integers, Sequences, FiniteSets, TLC

\* ------------------------------------------------------------------ constants

SR == 22050
HOP_LENGTH == 512
SPIKE_PERCENTILE == 95
window == 10

\* One second in ticks: 11025 * 1000, so that one frame is 256000 ticks and
\* one millisecond 11025 ticks.
TicksPerSecond == (SR \div 2) * 1000

\* MERGE_SECONDS = 0.5, in ticks.
MERGE_SECONDS == TicksPerSecond \div 2

\* The f0 librosa.pyin gives an unvoiced frame (not a number); no pitch is negative.
NaN == 0 - 1

\* ------------------------------------------------------------------ bounds

\* The longest loudness sequence the feature extractor returns.
MaxFrames == 23
\* The most candidates passed to _merge_spikes when it is called directly.
MaxCand == 4
\* np.std is kept to 1/StdResolution of a pitch unit.
StdResolution == 10

\* ------------------------------------------------------------------ helpers

At(s, k) == s[k + 1]

Min2(a, b) == IF a <= b THEN a ELSE b

Max2(a, b) == IF a >= b THEN a ELSE b

\* s[lo:hi] of Python, for 0 <= lo: the elements lo .. min(hi, len) - 1.
Slice(s, lo, hi) == SubSeq(s, lo + 1, Min2(hi, Len(s)))

RECURSIVE SeqSum(_)
SeqSum(s) == IF s = << >> THEN 0 ELSE Head(s) + SeqSum(Tail(s))

RECURSIVE SeqMin(_)
SeqMin(s) == IF Len(s) = 1 THEN s[1] ELSE Min2(Head(s), SeqMin(Tail(s)))

RECURSIVE SeqMax(_)
SeqMax(s) == IF Len(s) = 1 THEN s[1] ELSE Max2(Head(s), SeqMax(Tail(s)))

\* The largest r with r * r <= x, by bisection on lo <= r < hi.
RECURSIVE IsqrtIn(_, _, _)
IsqrtIn(x, lo, hi) ==
    IF hi - lo <= 1 THEN lo
    ELSE LET mid == (lo + hi) \div 2
         IN  IF mid * mid <= x THEN IsqrtIn(x, mid, hi) ELSE IsqrtIn(x, lo, mid)

Isqrt(x) == IsqrtIn(x, 0, 46341)

\* num / den rounded to the nearest whole number, a tie to the even one:
\* Python's round().
RoundHalfEven(num, den) ==
    LET q == num \div den
        r == num % den
    IN  IF 2 * r < den THEN q
        ELSE IF 2 * r > den THEN q + 1
        ELSE IF q % 2 = 0 THEN q ELSE q + 1

\* round(t, 2) of a time of t ticks, in hundredths of a second.
RoundSeconds(t) == RoundHalfEven(t, TicksPerSecond \div 100)

\* round(num / den, 4), in ten-thousandths.
RoundIntensity(num, den) ==
    (num \div den) * 10000 + RoundHalfEven((num % den) * 10000, den)

\* ------------------------------------------------------------------ state

VARIABLES
    pc,           \* where the call is: "idle", the steps of detect_spikes and
                  \* _merge_spikes, "done" (returned) or "error" (raised)
    input,        \* what librosa returned: [rms, f0, voiced_flag]
    pitch_var,    \* detect_spikes: pitch_var, in 1/StdResolution pitch units
    rms,          \* detect_spikes: rms
    heat,         \* detect_spikes: heat, [num |-> sequence, den |-> common denominator]
    threshold,    \* detect_spikes: threshold, [num, den]
    spike_frames, \* detect_spikes: spike_frames
    times,        \* _merge_spikes: times, in ticks
    heats,        \* _merge_spikes: heats, [num |-> sequence, den |-> common denominator]
    groups,       \* _merge_spikes: groups
    i,            \* _merge_spikes: the loop index of the scan
    best,         \* _merge_spikes: best_idx of each group reported so far
    result        \* the list returned: a sequence of [seconds, intensity]

vars == << pc, input, pitch_var, rms, heat, threshold, spike_frames,
           times, heats, groups, i, best, result >>

NoInput == [rms |-> << >>, f0 |-> << >>, voiced_flag |-> << >>]

NoHeat == [num |-> << >>, den |-> 1]

Init ==
    /\ pc = "idle"
    /\ input = NoInput
    /\ pitch_var = << >>
    /\ rms = << >>
    /\ heat = NoHeat
    /\ threshold = [num |-> 0, den |-> 1]
    /\ spike_frames = << >>
    /\ times = << >>
    /\ heats = NoHeat
    /\ groups = << >>
    /\ i = 0
    /\ best = << >>
    /\ result = << >>


\* ------------------------------------------------------------------ detect_spikes

\* np.where(voiced_flag, f0, 0.0): an unvoiced frame counts as pitch 0.
F0Safe(f0, voiced_flag) ==
    [k \in 1..Len(f0) |-> IF voiced_flag[k] THEN f0[k] ELSE 0]

\* The frames of f0_safe[max(0, i - window) : i + window], a Python slice:
\* its upper end is exclusive.
WindowFrames(k, n) == Max2(0, k - window) .. (Min2(k + window, n) - 1)

\* np.std(xs), the population standard deviation sqrt(n*sum(x^2) - sum(x)^2) / n,
\* in 1/StdResolution units, rounded down.
Std(xs) ==
    LET n == Len(xs)
        s1 == SeqSum(xs)
        s2 == SeqSum([k \in 1..n |-> xs[k] * xs[k]])
    IN  Isqrt((n * s2 - s1 * s1) * StdResolution * StdResolution) \div n

PitchVar(f0_safe) ==
    [p \in 1..Len(f0_safe) |->
        LET w == WindowFrames(p - 1, Len(f0_safe))
            lo == Max2(0, p - 1 - window)
        IN  Std([j \in 1..Cardinality(w) |-> At(f0_safe, lo + j - 1)])]

\* A slip of _normalize: a constant array scaled to all ones.
NormalizeOnes(arr) ==
    LET mn == SeqMin(arr)
        mx == SeqMax(arr)
    IN  IF mx = mn
        THEN [num |-> [k \in 1..Len(arr) |-> 1], den |-> 1]
        ELSE [num |-> [k \in 1..Len(arr) |-> arr[k] - mn], den |-> mx - mn]

\* _normalize on a non-empty array: min-max scaling to numerators over one
\* denominator; all zeros when every value is the same.
Normalize(arr) ==
    LET mn == SeqMin(arr)
        mx == SeqMax(arr)
    IN  IF mx = mn
        THEN [num |-> [k \in 1..Len(arr) |-> 0], den |-> 1]
        ELSE [num |-> [k \in 1..Len(arr) |-> arr[k] - mn], den |-> mx - mn]

\* arr.min() of an empty array raises ValueError.
NormalizeRaises(arr) == Len(arr) = 0

\* rms_norm * (1.0 + pvar_norm), one frame: rn/rd * (1 + pn/pd) over rd * pd.
HeatNum(rn, pn, pd) == rn * (pd + pn)

\* A slip of line 73: rms_norm * pvar_norm, the bonus without its 1.
HeatOfNoBonus(rms_norm, pvar_norm) ==
    [num |-> [k \in 1..Len(rms_norm.num) |-> rms_norm.num[k] * pvar_norm.num[k]],
     den |-> rms_norm.den * pvar_norm.den]

\* A slip of line 73: rms_norm + pvar_norm, pitch replacing loudness.
HeatOfAdditive(rms_norm, pvar_norm) ==
    [num |-> [k \in 1..Len(rms_norm.num) |->
                 rms_norm.num[k] * pvar_norm.den + pvar_norm.num[k] * rms_norm.den],
     den |-> rms_norm.den * pvar_norm.den]

HeatOf(rms_norm, pvar_norm) ==
    [num |-> [k \in 1..Len(rms_norm.num) |->
                 HeatNum(rms_norm.num[k], pvar_norm.num[k], pvar_norm.den)],
     den |-> rms_norm.den * pvar_norm.den]

\* np.percentile(a, q) of a non-empty a, linear interpolation between the
\* order statistics around (n - 1) * q / 100; the result is over 100.
Percentile(a, q) ==
    LET n == Len(a)
        s == SortSeq(a, LAMBDA x, y : x < y)
        vi == (n - 1) * q
        lo == vi \div 100
        fr == vi % 100
        hi == Min2(lo + 1, n - 1)
    IN  100 * At(s, lo) + fr * (At(s, hi) - At(s, lo))

\* A slip of line 77: >= for >.
ExceedsOrEqual(h, th) == h * 100 >= th

\* heat > threshold, for a heat numerator h over den and a threshold over 100 * den.
Exceeds(h, th) == h * 100 > th

RECURSIVE WhereFrom(_, _, _)
WhereFrom(a, th, k) ==
    IF k >= Len(a) THEN << >>
    ELSE IF Exceeds(At(a, k), th) THEN << k >> \o WhereFrom(a, th, k + 1)
    ELSE WhereFrom(a, th, k + 1)

\* np.where(heat > threshold)[0]: the frame indices, ascending.
Where(a, th) == WhereFrom(a, th, 0)

\* librosa.frames_to_time(frame, sr, hop_length) = frame * hop_length / sr, in ticks.
FramesToTime(frame) == frame * HOP_LENGTH * (TicksPerSecond \div SR)

\* ---- the inputs: what librosa.feature.rms and librosa.pyin return ----

\* A loudness sequence of n frames: a floor, a peak of 2 at frame pa and a
\* peak of hb at frame pb (a frame index outside 0..n-1 means no such peak).
Loudness(n, floor, pa, pb, hb) ==
    [p \in 1..n |-> floor + (IF p - 1 = pa THEN 2 ELSE 0)
                          + (IF p - 1 = pb THEN hb ELSE 0)]

\* The distances from the first peak to the second: the next frame, the last
\* frame within MERGE_SECONDS (21 frames = 0.4876 s) and the first beyond it.
PeakGaps == {1, 21, 22}

\* The frames of the first peak: the first two, the one a window in, the last;
\* -1 for no peak.
PeakFrames(n) == {-1} \cup ({0, 1, window, n - 1} \cap (0..(n - 1)))

LoudnessInputs(n) ==
    UNION { { Loudness(n, floor, pa, pb, hb) :
                floor \in {0, 1}, hb \in {1, 2},
                pb \in {-1} \cup {pa + g : g \in IF pa < 0 THEN {} ELSE PeakGaps} } :
            pa \in PeakFrames(n) }

\* The pitch tracks of m frames.  f0 is NaN exactly where voiced_flag is FALSE.
Unvoiced(m) == [f0 |-> [p \in 1..m |-> NaN], voiced_flag |-> [p \in 1..m |-> FALSE]]

Steady(m) == [f0 |-> [p \in 1..m |-> 100], voiced_flag |-> [p \in 1..m |-> TRUE]]

\* Voiced at 100 throughout, 200 at frame q.
Jump(m, q) ==
    [f0 |-> [p \in 1..m |-> IF p - 1 = q THEN 200 ELSE 100],
     voiced_flag |-> [p \in 1..m |-> TRUE]]

\* Unvoiced throughout, voiced at 200 at frame q.
Blip(m, q) ==
    [f0 |-> [p \in 1..m |-> IF p - 1 = q THEN 200 ELSE NaN],
     voiced_flag |-> [p \in 1..m |-> p - 1 = q]]

\* The frames where the pitch track may change: the first, the one a window
\* after it, and the last.
PitchFrames(m) == {0, window, m - 1} \cap (0..(m - 1))

PitchInputs(m) ==
    {Unvoiced(m), Steady(m)}
        \cup { Jump(m, q) : q \in PitchFrames(m) }
        \cup { Blip(m, q) : q \in PitchFrames(m) }

\* lines 44-56: librosa.load, librosa.feature.rms, librosa.pyin.  The two
\* sequences may differ in length.
Load ==
    /\ pc = "idle"
    /\ \E n \in 0..MaxFrames :
       \E m \in {n - 1, n, n + 1} \cap (0..(MaxFrames + 1)) :
       \E r \in LoudnessInputs(n), pt \in PitchInputs(m) :
            /\ input' = [rms |-> r, f0 |-> pt.f0, voiced_flag |-> pt.voiced_flag]
            /\ rms' = r
    /\ pc' = "pitch_var"
    /\ UNCHANGED << pitch_var, heat, threshold, spike_frames,
                    times, heats, groups, i, best, result >>

\* lines 57-63
ComputePitchVar ==
    /\ pc = "pitch_var"
    /\ pitch_var' = PitchVar(F0Safe(input.f0, input.voiced_flag))
    /\ pc' = "align"
    /\ UNCHANGED << input, rms, heat, threshold, spike_frames,
                    times, heats, groups, i, best, result >>

\* lines 65-68
Align ==
    /\ pc = "align"
    /\ LET min_len == Min2(Len(rms), Len(pitch_var))
       IN  /\ rms' = Slice(rms, 0, min_len)
           /\ pitch_var' = Slice(pitch_var, 0, min_len)
    /\ pc' = "heat"
    /\ UNCHANGED << input, heat, threshold, spike_frames,
                    times, heats, groups, i, best, result >>

\* lines 70-73, when _normalize returns
ComputeHeat ==
    /\ pc = "heat"
    /\ ~NormalizeRaises(rms)
    /\ heat' = HeatOf(Normalize(rms), Normalize(pitch_var))
    /\ pc' = "extract"
    /\ UNCHANGED << input, pitch_var, rms, threshold, spike_frames,
                    times, heats, groups, i, best, result >>

\* line 71, when _normalize raises: the exception leaves detect_spikes
HeatRaises ==
    /\ pc = "heat"
    /\ NormalizeRaises(rms)
    /\ pc' = "error"
    /\ UNCHANGED << input, pitch_var, rms, heat, threshold, spike_frames,
                    times, heats, groups, i, best, result >>

\* lines 75-80, no candidate: return []
ExtractNone ==
    /\ pc = "extract"
    /\ LET th == Percentile(heat.num, SPIKE_PERCENTILE)
       IN  /\ Where(heat.num, th) = << >>
           /\ threshold' = [num |-> th, den |-> 100 * heat.den]
           /\ spike_frames' = << >>
    /\ result' = << >>
    /\ pc' = "done"
    /\ UNCHANGED << input, pitch_var, rms, heat, times, heats, groups, i, best >>

\* lines 75-87, some candidate: the call of _merge_spikes
ExtractSome ==
    /\ pc = "extract"
    /\ LET th == Percentile(heat.num, SPIKE_PERCENTILE)
           frames == Where(heat.num, th)
       IN  /\ frames # << >>
           /\ threshold' = [num |-> th, den |-> 100 * heat.den]
           /\ spike_frames' = frames
           /\ times' = [c \in 1..Len(frames) |-> FramesToTime(frames[c])]
           /\ heats' = [num |-> [c \in 1..Len(frames) |-> At(heat.num, frames[c])],
                        den |-> heat.den]
    /\ pc' = "merge"
    /\ UNCHANGED << input, pitch_var, rms, heat, groups, i, best, result >>


\* ------------------------------------------------------------------ _merge_spikes

\* A slip of line 111: < for <=.
JoinsClusterStrict(t, last) == t - last < MERGE_SECONDS

\* line 111: does the candidate at time t join the cluster whose last member
\* is at time last?
JoinsCluster(t, last) == t - last <= MERGE_SECONDS

\* A slip of line 111: the first member of the cluster, groups[-1][0], which
\* would make the rule a fixed radius around the cluster's start.
FirstOfCluster(group) == group[1]

\* line 111: groups[-1][-1], the last candidate added to the current cluster.
LastOfCluster(group) == group[Len(group)]

\* np.argmax(a): the first position (0-based) of the maximum of a non-empty a.
RECURSIVE ArgMaxFrom(_, _, _)
ArgMaxFrom(a, k, b) ==
    IF k >= Len(a) THEN b
    ELSE ArgMaxFrom(a, k + 1, IF At(a, k) > At(a, b) THEN k ELSE b)

\* A slip of line 118: the last position of the maximum for the first.
RECURSIVE ArgMaxLastFrom(_, _, _)
ArgMaxLastFrom(a, k, b) ==
    IF k >= Len(a) THEN b
    ELSE ArgMaxLastFrom(a, k + 1, IF At(a, k) >= At(a, b) THEN k ELSE b)

ArgMaxLast(a) == ArgMaxLastFrom(a, 1, 0)

ArgMax(a) == ArgMaxFrom(a, 1, 0)

\* line 118: group[np.argmax(heats[group])]
BestIdx(group, hs) ==
    At(group, ArgMax([c \in 1..Len(group) |-> At(hs, group[c])]))

\* lines 119-122
Entry(t, h, den) ==
    [seconds |-> RoundSeconds(t), intensity |-> RoundIntensity(h, den)]

\* lines 106-107: no candidate
MergeReturnEmpty ==
    /\ pc = "merge"
    /\ Len(times) = 0
    /\ result' = << >>
    /\ pc' = "done"
    /\ UNCHANGED << input, pitch_var, rms, heat, threshold, spike_frames,
                    times, heats, groups, i, best >>

\* line 109, and the entry of the loop of line 110
MergeBegin ==
    /\ pc = "merge"
    /\ Len(times) # 0
    /\ groups' = << << 0 >> >>
    /\ i' = 1
    /\ pc' = IF 1 < Len(times) THEN "scan" ELSE "report"
    /\ UNCHANGED << input, pitch_var, rms, heat, threshold, spike_frames,
                    times, heats, best, result >>

\* lines 110-114: one turn of the loop
MergeScan ==
    /\ pc = "scan"
    /\ i < Len(times)
    /\ LET g == Len(groups)
           last == LastOfCluster(groups[g])
       IN  IF JoinsCluster(At(times, i), At(times, last))
           THEN groups' = [groups EXCEPT ![g] = Append(@, i)]
           ELSE groups' = Append(groups, << i >>)
    /\ i' = i + 1
    /\ pc' = IF i + 1 < Len(times) THEN "scan" ELSE "report"
    /\ UNCHANGED << input, pitch_var, rms, heat, threshold, spike_frames,
                    times, heats, best, result >>

\* lines 116-123: one turn of the loop over the groups, and the return
MergeReport ==
    /\ pc = "report"
    /\ Len(result) < Len(groups)
    /\ LET group == groups[Len(result) + 1]
           best_idx == BestIdx(group, heats.num)
       IN  /\ best' = Append(best, best_idx)
           /\ result' = Append(result,
                  Entry(At(times, best_idx), At(heats.num, best_idx), heats.den))
    /\ pc' = IF Len(result) + 1 < Len(groups) THEN "report" ELSE "done"
    /\ UNCHANGED << input, pitch_var, rms, heat, threshold, spike_frames,
                    times, heats, groups, i >>

\* ---- the candidates of a direct call of _merge_spikes ----

Millisecond == TicksPerSecond \div 1000

\* Times in milliseconds: none is 5 modulo 10, so round(t, 2) meets no tie.
TimeGrid == {0, 6, 400, 500, 508, 800, 2000}

\* Frame indices, for candidates at frame times as detect_spikes passes them.
FrameGrid == {0, 3, 21, 22, 25, 47}

HeatGrid == {1, 2}

\* The denominator of the heats of a direct call: heats of 1/3 and 2/3.
HeatDen == 3

Ascending(s) == \A k \in 1..(Len(s) - 1) : s[k] <= s[k + 1]

StrictlyAscending(s) == \A k \in 1..(Len(s) - 1) : s[k] < s[k + 1]

CandidateTimes(n) ==
    { [k \in 1..n |-> ms[k] * Millisecond] :
        ms \in { s \in [1..n -> TimeGrid] : Ascending(s) } }
    \cup
    { [k \in 1..n |-> FramesToTime(fs[k])] :
        fs \in { s \in [1..n -> FrameGrid] : StrictlyAscending(s) } }

\* A call _merge_spikes(times, heats, merge_gap=MERGE_SECONDS) with times ascending.
CallMergeSpikes ==
    /\ pc = "idle"
    /\ \E n \in 0..MaxCand :
       \E ts \in CandidateTimes(n), hs \in [1..n -> HeatGrid] :
            /\ times' = ts
            /\ heats' = [num |-> hs, den |-> HeatDen]
    /\ pc' = "merge"
    /\ UNCHANGED << input, pitch_var, rms, heat, threshold, spike_frames,
                    groups, i, best, result >>

\* ------------------------------------------------------------------ specifications

\* A call of detect_spikes.
Next ==
    \/ Load
    \/ ComputePitchVar
    \/ Align
    \/ ComputeHeat
    \/ HeatRaises
    \/ ExtractNone
    \/ ExtractSome
    \/ MergeBegin
    \/ MergeScan
    \/ MergeReport

Spec == Init /\ [][Next]_vars

\* A direct call of _merge_spikes.
NextMerge ==
    \/ CallMergeSpikes
    \/ MergeReturnEmpty
    \/ MergeBegin
    \/ MergeScan
    \/ MergeReport

SpecMerge == Init /\ [][NextMerge]_vars


\* ------------------------------------------------------------------ claims: _merge_spikes

\* One hundredth of a second, the unit of an entry's seconds, in ticks.
Centisecond == TicksPerSecond \div 100

\* Every candidate time is a frame time, as when detect_spikes calls.
OnFrameGrid(ts) == \A c \in 1..Len(ts) : ts[c] % FramesToTime(1) = 0

RECURSIVE Concat(_)
Concat(ss) == IF ss = << >> THEN << >> ELSE Head(ss) \o Concat(Tail(ss))

\* The group that holds candidate c.
GroupOf(c) ==
    CHOOSE g \in 1..Len(groups) : \E p \in 1..Len(groups[g]) : groups[g][p] = c

\* C1 as claimed: the entries returned are ascending in time, and any two
\* consecutive entries are more than MERGE_SECONDS apart.
C1_MoreThanGapApart ==
    \A k \in 1..(Len(result) - 1) :
        (result[k + 1].seconds - result[k].seconds) * Centisecond > MERGE_SECONDS

\* C1 as amended: the entries are strictly ascending; the candidates two
\* consecutive entries report are more than MERGE_SECONDS apart, and the
\* entries' seconds, rounded to 0.01, are at least MERGE_SECONDS apart; they are
\* more than MERGE_SECONDS apart when the candidates are at frame times.
C1_AtLeastGapApart ==
    \A k \in 1..(Len(result) - 1) :
        LET d == (result[k + 1].seconds - result[k].seconds) * Centisecond
        IN  /\ result[k].seconds < result[k + 1].seconds
            /\ At(times, best[k + 1]) - At(times, best[k]) > MERGE_SECONDS
            /\ d >= MERGE_SECONDS
            /\ OnFrameGrid(times) => d > MERGE_SECONDS

\* C1's case: a call at frame times returned two entries or more, one of them
\* for a cluster of several candidates.
C1_Witness ==
    /\ pc = "done"
    /\ OnFrameGrid(times)
    /\ Len(result) >= 2
    /\ Len(times) > Len(result)

\* C2: the groups are the candidates scanned so far, in order, and candidate c
\* is in the group of candidate c - 1 (the last one added to the current
\* cluster when c is scanned) exactly when its time is at most MERGE_SECONDS
\* after it; candidates at 0.0, 0.4, 0.8 and 2.0 s give two entries.
C2_ChainedGap ==
    /\ groups # << >> =>
        /\ Concat(groups) = [k \in 1..(IF pc = "scan" THEN i ELSE Len(times)) |-> k - 1]
        /\ \A g \in 1..Len(groups) : groups[g] # << >>
        /\ \A c \in 1..(Len(Concat(groups)) - 1) :
              (GroupOf(c) = GroupOf(c - 1))
                  <=> (At(times, c) - At(times, c - 1) <= MERGE_SECONDS)
    /\ (pc = "done" /\ times = << 0, 400 * Millisecond, 800 * Millisecond,
                                  2000 * Millisecond >>)
            => /\ groups = << << 0, 1, 2 >>, << 3 >> >>
               /\ Len(result) = 2

\* C2's case: the candidates at 0.0, 0.4, 0.8 and 2.0 s have been merged: the
\* first and the third, 0.8 s apart, are in one cluster.
C2_Witness ==
    /\ pc = "done"
    /\ times = << 0, 400 * Millisecond, 800 * Millisecond, 2000 * Millisecond >>
    /\ GroupOf(0) = GroupOf(2)
    /\ At(times, 2) - At(times, 0) > MERGE_SECONDS

\* C3: the entry of each cluster is that of a member of the cluster whose heat
\* no member exceeds, and no member of the same heat comes before it.
C3_MaxHeatEarliest ==
    \A k \in 1..Len(result) :
        LET group == groups[k]
            b == best[k]
        IN  /\ \E p \in 1..Len(group) : group[p] = b
            /\ \A p \in 1..Len(group) :
                  /\ At(heats.num, group[p]) <= At(heats.num, b)
                  /\ At(heats.num, group[p]) = At(heats.num, b) => b <= group[p]
            /\ result[k] = [seconds |-> RoundSeconds(At(times, b)),
                            intensity |-> RoundIntensity(At(heats.num, b), heats.den)]

\* C3's case: a reported cluster has two members of the maximum heat, at
\* different times.
C3_Witness ==
    /\ pc = "done"
    /\ \E k \in 1..Len(result) :
       \E p, q \in 1..Len(groups[k]) :
            /\ p < q
            /\ At(heats.num, groups[k][p]) = At(heats.num, best[k])
            /\ At(heats.num, groups[k][q]) = At(heats.num, best[k])
            /\ At(times, groups[k][p]) < At(times, groups[k][q])
            /\ \E r \in 1..Len(groups[k]) :
                  At(heats.num, groups[k][r]) < At(heats.num, best[k])


\* ------------------------------------------------------------------ claims: detect_spikes

\* rms and pitch_var are aligned: line 68 has run.
AfterAlign == pc \in {"heat", "extract", "merge", "scan", "report", "done", "error"}

\* heat is computed: line 73 has run.
AfterHeat == pc \in {"extract", "merge", "scan", "report", "done"}

\* threshold and spike_frames are computed: line 77 has run.
Extracted == pc \in {"merge", "scan", "report", "done"}

Frames(a) == 0..(Len(a) - 1)

IsCandidate(k) == \E c \in 1..Len(spike_frames) : spike_frames[c] = k

Constant(a) == \A j, k \in 1..Len(a) : a[j] = a[k]

\* C4: a frame is a candidate exactly when its heat is greater than the
\* threshold, so never when it equals it; the candidates are in ascending
\* frame order; and at most the frames above position 0.95 * (n - 1) of the
\* sorted heats, the top twentieth, are candidates.
C4_StrictlyAboveThreshold ==
    Extracted =>
        /\ \A k \in Frames(heat.num) :
              IsCandidate(k) <=> At(heat.num, k) * threshold.den > threshold.num * heat.den
        /\ \A c \in 1..Len(spike_frames) : spike_frames[c] \in Frames(heat.num)
        /\ \A c \in 1..(Len(spike_frames) - 1) : spike_frames[c] < spike_frames[c + 1]
        /\ Len(spike_frames) * 100
              <= (Len(heat.num) - 1) * (100 - SPIKE_PERCENTILE) + 99

\* C4's case: one frame is a candidate and another, of positive heat, is
\* exactly at the threshold and is none.
C4_Witness ==
    /\ Extracted
    /\ spike_frames # << >>
    /\ \E k \in Frames(heat.num) :
          /\ At(heat.num, k) > 0
          /\ At(heat.num, k) * threshold.den = threshold.num * heat.den
          /\ ~IsCandidate(k)

C6_DegenerateGivesNothing ==
    (AfterHeat /\ (Constant(rms) \/ Len(rms) < 2 * window)) =>
        /\ \A k \in Frames(heat.num) : At(heat.num, k) = 0
        /\ pc # "extract" => (pc = "done" /\ spike_frames = << >> /\ result = << >>)

\* C6 as amended: when the aligned loudness of a clip of one frame or more
\* is constant (silence included), whatever its length and its pitch,
\* detect_spikes does not raise, the heat is zero in every frame, no frame is a
\* candidate and the empty list is returned.
C6_ConstantLoudnessGivesNothing ==
    (AfterAlign /\ Len(rms) >= 1 /\ Constant(rms)) =>
        /\ pc # "error"
        /\ AfterHeat => \A k \in Frames(heat.num) : At(heat.num, k) = 0
        /\ pc \notin {"heat", "extract"} =>
              (pc = "done" /\ spike_frames = << >> /\ result = << >>)

\* C6's case: a silent clip whose pitch variability is not constant has
\* returned.
C6_Witness ==
    /\ pc = "done"
    /\ Len(rms) >= 2 * window
    /\ \A k \in 1..Len(rms) : rms[k] = 0
    /\ ~Constant(pitch_var)
    /\ result = << >>

\* C7 as claimed: no frame of non-zero loudness has heat zero.
C7_ZeroHeatOnlyWhenSilent ==
    AfterHeat => \A k \in Frames(heat.num) : At(heat.num, k) = 0 => At(rms, k) = 0

\* C7 as amended: the heat of a frame is zero exactly when its loudness is the
\* least loudness of the aligned sequence, that is when its normalized loudness
\* is zero; the frame's pitch variability never makes it zero.
C7_ZeroHeatOnlyWhenQuietest ==
    AfterHeat =>
        \A k \in Frames(heat.num) : At(heat.num, k) = 0 <=> At(rms, k) = SeqMin(rms)

\* C7's case: a frame of non-zero loudness has heat zero, and a frame of the
\* least pitch variability, other frames varying more, has heat above zero.
C7_Witness ==
    /\ AfterHeat
    /\ \E k \in Frames(heat.num) : At(rms, k) > 0 /\ At(heat.num, k) = 0
    /\ \E k \in Frames(heat.num) :
          /\ At(heat.num, k) > 0
          /\ At(pitch_var, k) = SeqMin(pitch_var)
          /\ SeqMax(pitch_var) > SeqMin(pitch_var)

\* C8: a frame whose loudness is the least of the aligned sequence, a silent
\* frame included, is no candidate, and no entry returned is that of such a
\* frame.
C8_SilentFrameNeverSpikes ==
    Extracted =>
        /\ \A c \in 1..Len(spike_frames) : At(rms, spike_frames[c]) > SeqMin(rms)
        /\ \A k \in 1..Len(result) :
              /\ At(rms, At(spike_frames, best[k])) > SeqMin(rms)
              /\ result[k].seconds = RoundSeconds(FramesToTime(At(spike_frames, best[k])))

\* C8's case: a spike is returned while a silent frame has the greatest pitch
\* variability of the clip.
C8_Witness ==
    /\ pc = "done"
    /\ result # << >>
    /\ \E k \in Frames(rms) :
          /\ At(rms, k) = 0
          /\ At(pitch_var, k) = SeqMax(pitch_var)
          /\ SeqMax(pitch_var) > SeqMin(pitch_var)

SymmetricFrames(k, n) == Max2(0, k - window) .. Min2(k + window, n - 1)

\* C10: the pitch variability of frame k is the deviation of the effective
\* pitch (0 when unvoiced) over the frames k - window .. k + window, clipped to
\* the sequence.
C10_SymmetricWindow ==
    pc = "align" =>
        LET f0_safe == F0Safe(input.f0, input.voiced_flag)
        IN  \A k \in Frames(f0_safe) :
                LET w == SymmetricFrames(k, Len(f0_safe))
                    lo == Max2(0, k - window)
                IN  At(pitch_var, k)
                        = Std([j \in 1..Cardinality(w) |-> At(f0_safe, lo + j - 1)])

=============================================================================
